---- MODULE Spec2Model ----
(***************************************************************************)
(* Model of the ulogme web backend (zocomputer/newlogme): the DuckDB       *)
(* access module (backend-lib/ulogme-db.ts), the Hono routes of server.ts  *)
(* and the client-side duration derivation of the chart components.        *)
(*                                                                         *)
(* Tables are sets of rows; a primary key is kept unique by the upsert     *)
(* operators, as the ON CONFLICT clauses of the SQL do.  Logical dates are *)
(* day numbers, timestamps are seconds, JSON null / a missing field are    *)
(* the markers Null / absence from the body's "has" set.                   *)
(***************************************************************************)
EXTENDS Integers, Sequences, FiniteSets, TLC

\* ------------------------------------------------------------------ bounds
MaxDate == 3
MaxNotes == 2
MaxBlogs == 1
MaxEvents == 3
MaxKeyRows == 2
MaxLimit == 2
MaxKeys == 2
MaxRules == 2

\* ---------------------------------------------------------- input domains
Dates == 1..MaxDate
Times == {0, 300, 2400}
NoteTimes == {0, 300}
Apps == {"Chrome", "VSCode", "__LOCKEDSCREEN"}
Contents == {"lunch", "tea"}
Null == "<null>"
SecondsPerDay == 24 * 60 * 60

\* The instant "t seconds into logical day d"
Instant(d, t) == (d - 1) * SecondsPerDay + t

VARIABLES window_events, key_events, notes, daily_blog, settings,
          store, req, resp, dbLog, pending, props, view, opened, zo,
          cached, callers

vars == <<window_events, key_events, notes, daily_blog, settings,
          store, req, resp, dbLog, pending, props, view, opened, zo, cached, callers>>

tables == <<window_events, key_events, notes, daily_blog, settings>>

\* Before the first request, response and render
NoReq == [op |-> "none"]

NoResp == [status |-> 0]

NoView == [component |-> "none"]

\* No request to the Zo API has been issued and no timer is set
NoZo == [sent |-> 0, timers |-> {}]

\* Concurrent requests that call getConnection of the cached-connection
\* database module, and how often closeConnection may be called
MaxCallers == 2

MaxCloses == 1

\* How many instances DuckDBInstance.create may make in one run
MaxInstances == 3

Callers == 1 .. MaxCallers

\* let instance = null; let connection = null.  Instances are numbered in
\* the order DuckDBInstance.create made them (0 is null), a connection
\* carries the number of its instance; made counts the instances created,
\* closes the closeConnection calls.
NoCache == [instance |-> 0, connection |-> 0, made |-> 0, closes |-> 0]

\* No request is inside getConnection
NoCallers == [c \in Callers |-> [pc |-> "idle", mine |-> 0, got |-> 0]]

\* ------------------------------------------------------------ SQL helpers
\* Rows of a table in ORDER BY timestamp order; rows with equal timestamps
\* may come in either order, so this is a set of sequences.
OrderByTimestamp(S) ==
    {s \in [1..Cardinality(S) -> S] :
        \A i, j \in 1..Cardinality(S) :
            i < j => (s[i] # s[j] /\ s[i].timestamp <= s[j].timestamp)}

\* JavaScript truthiness of a string-or-null value
Truthy(v) == v # Null /\ v # ""

\* withConnection / withWriteConnection: existsSync(DB_PATH) fails for a
\* missing file and DuckDBInstance.create throws for one that cannot be
\* opened; otherwise fn(conn) runs and its value is returned.
Threw == [ok |-> FALSE]

Returned(v) == [ok |-> TRUE, value |-> v]

\* withConnection that hands back fn's value without opening the database
withConnection_noCheck(v) == Returned(v)

withConnection(v) == IF store = "ok" THEN Returned(v) ELSE Threw

withWriteConnection(v) == IF store = "ok" THEN Returned(v) ELSE Threw

\* An upsert that replaces the whole row: ON CONFLICT (timestamp) DO UPDATE
\* SET content = excluded.content, logical_date = excluded.logical_date
addNote_replaceRow(tbl, timestamp, content, logicalDate) ==
    {n \in tbl : n.timestamp # timestamp}
        \cup {[timestamp |-> timestamp, content |-> content,
                logical_date |-> logicalDate]}

\* A plain INSERT into a notes table without its primary key
addNote_plainInsert(tbl, timestamp, content, logicalDate) ==
    tbl \cup {[timestamp |-> timestamp, content |-> content,
               logical_date |-> logicalDate]}

\* INSERT INTO notes ... ON CONFLICT (timestamp) DO UPDATE SET content
addNote(tbl, timestamp, content, logicalDate) ==
    IF \E n \in tbl : n.timestamp = timestamp
    THEN {IF n.timestamp = timestamp THEN [n EXCEPT !.content = content] ELSE n :
             n \in tbl}
    ELSE tbl \cup {[timestamp |-> timestamp, content |-> content,
                    logical_date |-> logicalDate]}

\* INSERT INTO daily_blog ... ON CONFLICT (logical_date) DO UPDATE SET content
saveBlog(tbl, logicalDate, content) ==
    {b \in tbl : b.logical_date # logicalDate}
        \cup {[logical_date |-> logicalDate, content |-> content]}

\* The blog column of getDayData: the row's content when it is truthy
BlogOf(tbl, logicalDate) ==
    IF \E b \in tbl : b.logical_date = logicalDate /\ Truthy(b.content)
    THEN (CHOOSE b \in tbl : b.logical_date = logicalDate).content
    ELSE Null

\* getDayData whose notes query has lost its WHERE logical_date = ? clause
getDayData_noWhere(logicalDate) ==
    {[logical_date |-> logicalDate,
      window_events |-> [i \in DOMAIN w |->
                            [timestamp |-> w[i].timestamp, app_name |-> w[i].app_name]],
      key_events |-> [i \in DOMAIN k |->
                            [timestamp |-> k[i].timestamp, key_count |-> k[i].key_count]],
      notes |-> [i \in DOMAIN n |->
                            [timestamp |-> n[i].timestamp, content |-> n[i].content]],
      blog |-> BlogOf(daily_blog, logicalDate)] :
        w \in OrderByTimestamp({e \in window_events : e.logical_date = logicalDate}),
        k \in OrderByTimestamp({e \in key_events : e.logical_date = logicalDate}),
        n \in OrderByTimestamp(notes)}

\* The possible results of getDayData(logicalDate)
getDayData(logicalDate) ==
    {[logical_date |-> logicalDate,
      window_events |-> [i \in DOMAIN w |->
                            [timestamp |-> w[i].timestamp, app_name |-> w[i].app_name]],
      key_events |-> [i \in DOMAIN k |->
                            [timestamp |-> k[i].timestamp, key_count |-> k[i].key_count]],
      notes |-> [i \in DOMAIN n |->
                            [timestamp |-> n[i].timestamp, content |-> n[i].content]],
      blog |-> BlogOf(daily_blog, logicalDate)] :
        w \in OrderByTimestamp({e \in window_events : e.logical_date = logicalDate}),
        k \in OrderByTimestamp({e \in key_events : e.logical_date = logicalDate}),
        n \in OrderByTimestamp({e \in notes : e.logical_date = logicalDate})}

\* ------------------------------------------------------- request bodies
\* A body is the parsed JSON object: "has" names the fields it carries (a
\* field outside "has" is undefined and its slot below is a filler), and
\* json = FALSE is a body that c.req.json() cannot parse.
NoteBodies ==
    {b \in [json : {TRUE}, has : SUBSET {"timestamp", "content", "logical_date"},
            timestamp : NoteTimes, content : Contents \cup {""}, logical_date : Dates] :
        /\ "timestamp" \notin b.has => b.timestamp = 0
        /\ "content" \notin b.has => b.content = ""
        /\ "logical_date" \notin b.has => b.logical_date = 1}
    \cup {[json |-> FALSE, has |-> {}, timestamp |-> 0, content |-> "",
           logical_date |-> 1]}

BlogBodies ==
    {b \in [json : {TRUE}, has : SUBSET {"content"}, content : {"lunch", "", Null}] :
        "content" \notin b.has => b.content = Null}
    \cup {[json |-> FALSE, has |-> {}, content |-> Null]}

\* The check without its logical_date operand
NoteFieldsMissing_noDate(b) ==
    \/ "timestamp" \notin b.has
    \/ "content" \notin b.has \/ ~Truthy(b.content)

\* !timestamp || !content || !logical_date
NoteFieldsMissing(b) ==
    \/ "timestamp" \notin b.has
    \/ "content" \notin b.has \/ ~Truthy(b.content)
    \/ "logical_date" \notin b.has

\* content === undefined
BlogContentUndefined(b) == "content" \notin b.has

\* ------------------------------------------------------------- the store
\* The database file is created and filled by the tracker; it can be absent
\* or held by another process.
StoreFaultTo(S) ==
    /\ store' \in S \ {store}
    /\ UNCHANGED <<tables, req, resp, dbLog, pending, props, view, opened, zo, cached, callers>>

\* --------------------------------------------------------------- routes
\* POST /api/ulogme/note
PostNoteRoute(b) ==
    /\ req' = [op |-> "postNote", body |-> b]
    /\ IF ~b.json
       THEN /\ resp' = [status |-> 500, error |-> "Failed to add note"]
            /\ dbLog' = <<>>
            /\ UNCHANGED notes
       ELSE IF NoteFieldsMissing(b)
       THEN /\ resp' = [status |-> 400,
                        error |-> "timestamp, content, and logical_date are required"]
            /\ dbLog' = <<>>
            /\ UNCHANGED notes
       ELSE \E r \in {withWriteConnection(
                           addNote(notes, b.timestamp, b.content, b.logical_date))} :
               /\ dbLog' = <<"addNote">>
               /\ IF r.ok
                  THEN /\ Cardinality(r.value) <= MaxNotes
                       /\ notes' = r.value
                       /\ resp' = [status |-> 200, success |-> TRUE]
                  ELSE /\ UNCHANGED notes
                       /\ resp' = [status |-> 500, error |-> "Failed to add note"]

PostNote ==
    \E b \in NoteBodies :
        /\ PostNoteRoute(b)
        /\ UNCHANGED <<window_events, key_events, daily_blog, settings, store, pending, props, view, opened, zo, cached, callers>>

\* PUT /api/ulogme/blog/:logicalDate
PutBlog ==
    \E d \in Dates, b \in BlogBodies :
        /\ req' = [op |-> "putBlog", logicalDate |-> d, body |-> b]
        /\ IF ~b.json
           THEN /\ resp' = [status |-> 500, error |-> "Failed to save blog"]
                /\ dbLog' = <<>>
                /\ UNCHANGED daily_blog
           ELSE IF BlogContentUndefined(b)
           THEN /\ resp' = [status |-> 400, error |-> "content is required"]
                /\ dbLog' = <<>>
                /\ UNCHANGED daily_blog
           ELSE \E r \in {withWriteConnection(saveBlog(daily_blog, d, b.content))} :
                   /\ dbLog' = <<"saveBlog">>
                   /\ IF r.ok
                      THEN /\ Cardinality(r.value) <= MaxBlogs
                           /\ daily_blog' = r.value
                           /\ resp' = [status |-> 200, success |-> TRUE]
                      ELSE /\ UNCHANGED daily_blog
                           /\ resp' = [status |-> 500, error |-> "Failed to save blog"]
        /\ UNCHANGED <<window_events, key_events, notes, settings, store, pending, props, view, opened, zo, cached, callers>>

\* GET /api/ulogme/day/:logicalDate
GetDay ==
    \E d \in Dates :
        /\ req' = [op |-> "getDay", logicalDate |-> d]
        /\ dbLog' = <<"getDayData">>
        /\ \E v \in getDayData(d) :
              LET r == withConnection(v)
              IN resp' = IF r.ok
                         THEN [status |-> 200, data |-> r.value]
                         ELSE [status |-> 500, error |-> "Failed to fetch day data"]
        /\ UNCHANGED <<tables, store, pending, props, view, opened, zo, cached, callers>>

\* ------------------------------------------------- aggregation queries
\* LEAD(timestamp) OVER (ORDER BY timestamp): the seconds to the next row,
\* 0 for the last row (next_timestamp IS NULL)
\* A LEAD gap that counts at most 30 minutes
Lead_capped(w, i) ==
    IF i < Len(w)
    THEN (IF w[i + 1].timestamp - w[i].timestamp < 30 * 60
          THEN w[i + 1].timestamp - w[i].timestamp ELSE 30 * 60)
    ELSE 0

Lead(w, i) == IF i < Len(w) THEN w[i + 1].timestamp - w[i].timestamp ELSE 0

RECURSIVE SumDurations(_, _, _)
SumDurations(w, a, i) ==
    IF i = 0 THEN 0
    ELSE SumDurations(w, a, i - 1) + (IF w[i].app_name = a THEN Lead(w, i) ELSE 0)

\* GROUP BY app_name: SUM(duration), COUNT(*)
AppUsageRows(w) ==
    {[app_name |-> a,
      duration_seconds |-> SumDurations(w, a, Len(w)),
      event_count |-> Cardinality({i \in DOMAIN w : w[i].app_name = a})] :
        a \in {w[i].app_name : i \in DOMAIN w}}

\* The rows of a query without its ORDER BY clause: any order
OrderByDurationDesc_noOrder(R) ==
    {s \in [1..Cardinality(R) -> R] :
        \A i, j \in 1..Cardinality(R) : i < j => s[i] # s[j]}

\* ORDER BY duration_seconds DESC; equal durations come in either order
OrderByDurationDesc(R) ==
    {s \in [1..Cardinality(R) -> R] :
        \A i, j \in 1..Cardinality(R) :
            i < j => (s[i] # s[j] /\ s[i].duration_seconds >= s[j].duration_seconds)}

\* The possible results of getAppUsageForDate(logicalDate)
getAppUsageForDate(logicalDate) ==
    UNION {OrderByDurationDesc(AppUsageRows(w)) :
              w \in OrderByTimestamp({e \in window_events : e.logical_date = logicalDate})}

RECURSIVE SumKeyCount(_)
SumKeyCount(K) ==
    IF K = {} THEN 0
    ELSE LET k == CHOOSE x \in K : TRUE IN k.key_count + SumKeyCount(K \ {k})

\* ORDER BY logical_date DESC over a set of dates
RECURSIVE OrderDesc(_)
OrderDesc(D) ==
    IF D = {} THEN <<>>
    ELSE LET m == CHOOSE x \in D : \A y \in D : y <= x IN <<m>> \o OrderDesc(D \ {m})

\* LIMIT n
Limit(s, n) == IF n < Len(s) THEN SubSeq(s, 1, n) ELSE s

\* A query parameter that the request does not carry
NoParam == -1

\* The WHERE clause getOverview builds from fromDate and toDate
OverviewWhere(d, fromDate, toDate) ==
    /\ fromDate # NoParam => d >= fromDate
    /\ toDate # NoParam => d <= toDate

\* The row of a query that joins key_events to window_events and sums over
\* the joined rows
OverviewRow_joined(d) ==
    [logical_date |-> d,
     total_keys |-> SumKeyCount({k \in key_events : k.logical_date = d})
                       * Cardinality({w \in window_events : w.logical_date = d}),
     unique_apps |-> Cardinality({e.app_name : e \in {w \in window_events :
                                                        w.logical_date = d}})]

\* One result row: the date, COALESCE(SUM(key_count) of the date, 0) and
\* COUNT(DISTINCT w.app_name)
OverviewRow(d) ==
    [logical_date |-> d,
     total_keys |-> SumKeyCount({k \in key_events : k.logical_date = d}),
     unique_apps |-> Cardinality({e.app_name : e \in {w \in window_events :
                                                        w.logical_date = d}})]

\* GROUP BY w.logical_date ORDER BY w.logical_date DESC
RECURSIVE OverviewRows(_)
OverviewRows(D) ==
    IF D = {} THEN <<>>
    ELSE LET m == CHOOSE x \in D : \A y \in D : y <= x
         IN <<OverviewRow(m)>> \o OverviewRows(D \ {m})

\* getOverview without the LIMIT clause
getOverview_noLimit(fromDate, toDate, limit) ==
    OverviewRows({e.logical_date : e \in {w \in window_events :
                                            OverviewWhere(w.logical_date, fromDate, toDate)}})

\* One row per logical_date of window_events (FROM window_events w ...
\* GROUP BY w.logical_date), newest first, cut at limit
getOverview(fromDate, toDate, limit) ==
    Limit(OverviewRows({e.logical_date : e \in {w \in window_events :
                                                  OverviewWhere(w.logical_date, fromDate, toDate)}}),
          limit)

\* SELECT DISTINCT logical_date FROM (window_events UNION key_events)
\* ORDER BY logical_date DESC
getAvailableDates ==
    LET ordered == OrderDesc({e.logical_date : e \in window_events}
                                \cup {e.logical_date : e \in key_events})
    IN [i \in DOMAIN ordered |-> [logical_date |-> ordered[i]]]

\* parseInt(c.req.query("limit") || "30", 10)
DefaultLimit == 30

LimitOf(limitParam) == IF limitParam = NoParam THEN DefaultLimit ELSE limitParam

\* GET /api/ulogme/dates
GetDates ==
    /\ req' = [op |-> "getDates"]
    /\ dbLog' = <<"getAvailableDates">>
    /\ LET r == withConnection(getAvailableDates)
       IN resp' = IF r.ok
                  THEN [status |-> 200, dates |-> r.value]
                  ELSE [status |-> 500, error |-> "Failed to fetch dates", dates |-> <<>>]
    /\ UNCHANGED <<tables, store, pending, props, view, opened, zo, cached, callers>>

\* The route with a handler that also stores the derived usage as a setting
GetApps_persist ==
    \E d \in Dates :
        /\ req' = [op |-> "getApps", logicalDate |-> d]
        /\ dbLog' = <<"getAppUsageForDate">>
        /\ \E v \in getAppUsageForDate(d) :
              LET r == withConnection(v)
              IN /\ resp' = IF r.ok
                            THEN [status |-> 200, apps |-> r.value]
                            ELSE [status |-> 500, error |-> "Failed to fetch app usage"]
                 /\ settings' = IF r.ok
                                THEN {x \in settings : x.key # "app_usage"}
                                        \cup {[key |-> "app_usage", value |-> r.value]}
                                ELSE settings
        /\ UNCHANGED <<window_events, key_events, notes, daily_blog,
                       store, pending, props, view, opened, zo, cached, callers>>

\* GET /api/ulogme/day/:logicalDate/apps
GetApps ==
    \E d \in Dates :
        /\ req' = [op |-> "getApps", logicalDate |-> d]
        /\ dbLog' = <<"getAppUsageForDate">>
        /\ \E v \in getAppUsageForDate(d) :
              LET r == withConnection(v)
              IN resp' = IF r.ok
                         THEN [status |-> 200, apps |-> r.value]
                         ELSE [status |-> 500, error |-> "Failed to fetch app usage"]
        /\ UNCHANGED <<tables, store, pending, props, view, opened, zo, cached, callers>>

\* The day, if any, whose row makes the computation throw while the overview
\* is assembled; an exception anywhere inside getOverview leaves the function.
NoFault == 0

FailingDays == {2}

OverviewThrows(rows, fault) == \E i \in DOMAIN rows : rows[i].logical_date = fault

\* GET /api/ulogme/overview
GetOverviewWith(F, T, L, X) ==
    \E from \in F, to \in T, limitParam \in L, fault \in X :
        /\ req' = [op |-> "getOverview", from |-> from, to |-> to,
                   limit |-> limitParam, fault |-> fault]
        /\ dbLog' = <<"getOverview">>
        /\ \E rows \in {getOverview(from, to, LimitOf(limitParam))} :
              LET r == IF OverviewThrows(rows, fault) THEN Threw ELSE withConnection(rows)
              IN resp' = IF r.ok
                         THEN [status |-> 200, days |-> r.value]
                         ELSE [status |-> 500, error |-> "Failed to fetch overview"]
        /\ UNCHANGED <<tables, store, pending, props, view, opened, zo, cached, callers>>

\* ------------------------------------------------------------- settings
\* A JSON value of a setting: a number, or another document kept as text
JsonNumber(n) == [type |-> "number", num |-> n, text |-> ""]

JsonArray(t) == [type |-> "array", num |-> 0, text |-> t]

SettingValues(key) ==
    IF key = "day_boundary_hour"
    THEN {JsonNumber(7), JsonNumber(23), JsonNumber(24)}
    ELSE {JsonArray("[]"), JsonArray("[\"Coding\"]")}

SettingKeys == {"day_boundary_hour", "hacking_categories"}

SettingEntries == UNION {[key : {k}, value : SettingValues(k)] : k \in SettingKeys}

\* The entries of a request body's JSON object, in Object.entries order
SettingsBodies ==
    {b \in UNION {[1..n -> SettingEntries] : n \in 0..MaxKeys} :
        \A i, j \in DOMAIN b : i # j => b[i].key # b[j].key}

\* An upsert whose ON CONFLICT clause does nothing
updateSetting_keepOld(tbl, key, value) ==
    IF \E r \in tbl : r.key = key THEN tbl
    ELSE tbl \cup {[key |-> key, value |-> value]}

\* An upsert that, on conflict, drops the stored row instead of replacing it
updateSetting_dropOnConflict(tbl, key, value) ==
    IF \E r \in tbl : r.key = key THEN {r \in tbl : r.key # key}
    ELSE tbl \cup {[key |-> key, value |-> value]}

\* INSERT INTO settings ... ON CONFLICT (key) DO UPDATE SET value
updateSetting(tbl, key, value) ==
    {r \in tbl : r.key # key} \cup {[key |-> key, value |-> value]}

\* SELECT key, value FROM settings, as an object
getSettings ==
    [k \in {r.key : r \in settings} |-> (CHOOSE r \in settings : r.key = k).value]

\* GET /api/ulogme/settings
GetSettings ==
    /\ pending = <<>>
    /\ req' = [op |-> "getSettings"]
    /\ dbLog' = <<"getSettings">>
    /\ LET r == withConnection(getSettings)
       IN resp' = IF r.ok
                  THEN [status |-> 200, settings |-> r.value]
                  ELSE [status |-> 500, error |-> "Failed to fetch settings"]
    /\ UNCHANGED <<tables, store, pending, props, view, opened, zo, cached, callers>>

\* PUT /api/ulogme/settings: the body is parsed and the loop over its
\* entries starts; each updateSetting is awaited in turn.  req.before is the
\* settings table as the request found it.
PutSettings ==
    /\ pending = <<>>
    /\ \E parsed \in BOOLEAN, b \in SettingsBodies :
          /\ parsed \/ b = <<>>
          /\ req' = [op |-> "putSettings", json |-> parsed, body |-> b,
                     before |-> settings]
          /\ dbLog' = <<>>
          /\ pending' = IF parsed THEN b ELSE <<>>
          /\ resp' = IF ~parsed
                     THEN [status |-> 500, error |-> "Failed to update settings"]
                     ELSE IF b = <<>> THEN [status |-> 200, success |-> TRUE]
                     ELSE NoResp
    /\ UNCHANGED <<tables, store, props, view, opened, zo, cached, callers>>

\* One await updateSetting(key, value) of the loop
PutSettingsStep ==
    /\ pending # <<>>
    /\ LET e == Head(pending)
           r == withWriteConnection(updateSetting(settings, e.key, e.value))
       IN /\ dbLog' = Append(dbLog, "updateSetting")
          /\ IF r.ok
             THEN /\ settings' = r.value
                  /\ pending' = Tail(pending)
                  /\ resp' = IF Tail(pending) = <<>>
                             THEN [status |-> 200, success |-> TRUE]
                             ELSE NoResp
             ELSE /\ UNCHANGED settings
                  /\ pending' = <<>>
                  /\ resp' = [status |-> 500, error |-> "Failed to update settings"]
    /\ UNCHANGED <<window_events, key_events, notes, daily_blog, store, req, props, view, opened, zo, cached, callers>>

\* -------------------------------------------------- chart components
\* CategoryStats and CategoryPieChart derive per-app durations from the
\* events prop with the same loop.
\* (next.getTime() - current.getTime()) / 1000, next being the event itself
\* for the last one
durationSecs(ev, i) == IF i < Len(ev) THEN ev[i + 1].timestamp - ev[i].timestamp ELSE 0

\* The loop without Math.min
cappedDuration_uncapped(ev, i) == durationSecs(ev, i)

\* Math.min(durationSecs, 30 * 60)
cappedDuration(ev, i) ==
    IF durationSecs(ev, i) < 30 * 60 THEN durationSecs(ev, i) ELSE 30 * 60

\* durations[app] after the loop has run over events 1..i
RECURSIVE durations(_, _, _)
durations(ev, app, i) ==
    IF i = 0 THEN 0
    ELSE durations(ev, app, i - 1) + (IF ev[i].app_name = app THEN cappedDuration(ev, i) ELSE 0)

\* The keys of durations in insertion order
RECURSIVE DurationKeys(_, _)
DurationKeys(ev, i) ==
    IF i = 0 THEN <<>>
    ELSE LET before == DurationKeys(ev, i - 1)
         IN IF \E j \in DOMAIN before : before[j] = ev[i].app_name
            THEN before
            ELSE Append(before, ev[i].app_name)

\* Object.entries(durations)
DurationEntries(ev) ==
    LET keys == DurationKeys(ev, Len(ev))
    IN [j \in DOMAIN keys |-> [name |-> keys[j], duration |-> durations(ev, keys[j], Len(ev))]]

\* A filter that keeps every entry
NotLockedScreen_keepAll(e) == TRUE

NotLockedScreen(e) == e.name # "__LOCKEDSCREEN"

\* .sort((a, b) => b[1] - a[1]): a stable sort, largest duration first
RECURSIVE InsertByDuration(_, _)
InsertByDuration(e, s) ==
    IF s = <<>> THEN <<e>>
    ELSE IF Head(s).duration >= e.duration
         THEN <<Head(s)>> \o InsertByDuration(e, Tail(s))
         ELSE <<e>> \o s

RECURSIVE SortByDuration(_)
SortByDuration(s) ==
    IF s = <<>> THEN <<>>
    ELSE InsertByDuration(s[Len(s)], SortByDuration(SubSeq(s, 1, Len(s) - 1)))

RECURSIVE SumDuration(_)
SumDuration(s) == IF s = <<>> THEN 0 ELSE Head(s).duration + SumDuration(Tail(s))

StatsTop == 8

PieTop == 5

\* The data CategoryStats charts
CategoryStats(ev) ==
    IF Len(ev) = 0 THEN <<>>
    ELSE Limit(SortByDuration(SelectSeq(DurationEntries(ev), NotLockedScreen)), StatsTop)

\* pieData and totalSeconds of CategoryPieChart
CategoryPieChart(ev) ==
    IF Len(ev) = 0 THEN [pieData |-> <<>>, totalSeconds |-> 0]
    ELSE LET sorted == SortByDuration(SelectSeq(DurationEntries(ev), NotLockedScreen))
             otherDuration == SumDuration(SubSeq(sorted, PieTop + 1, Len(sorted)))
             topApps == IF otherDuration > 0
                        THEN Append(Limit(sorted, PieTop),
                                    [name |-> "Other", duration |-> otherDuration])
                        ELSE Limit(sorted, PieTop)
         IN [pieData |-> topApps, totalSeconds |-> SumDuration(topApps)]

RenderCategoryStats ==
    /\ view' = [component |-> "CategoryStats", data |-> CategoryStats(props)]
    /\ UNCHANGED <<tables, store, req, resp, dbLog, pending, props, opened, zo, cached, callers>>

RenderCategoryPieChart ==
    /\ view' = [component |-> "CategoryPieChart",
                data |-> CategoryPieChart(props).pieData,
                totalSeconds |-> CategoryPieChart(props).totalSeconds]
    /\ UNCHANGED <<tables, store, req, resp, dbLog, pending, props, opened, zo, cached, callers>>

\* The window_events of a day summary: at most MaxEvents events of one day,
\* distinct in (timestamp, app_name), in timestamp order
EventLists ==
    UNION {OrderByTimestamp(S) :
              S \in {T \in SUBSET [timestamp : Times, app_name : Apps] :
                        Cardinality(T) <= MaxEvents}}

\* ------------------------------------------------------------ the tracker
\* The tracker appends focus events and key-count samples, each tagged with
\* the logical date of its instant; (timestamp, app_name) and timestamp are
\* the primary keys.  By then the previous HTTP exchange is over.
ExchangeOver == req' = NoReq /\ resp' = NoResp /\ dbLog' = <<>>

TrackWindowIn(D, T, A) ==
    \E d \in D, t \in T, a \in A :
        /\ store = "ok"
        /\ Cardinality(window_events) < MaxEvents
        /\ ~\E e \in window_events : e.timestamp = Instant(d, t) /\ e.app_name = a
        /\ window_events' = window_events \cup
              {[timestamp |-> Instant(d, t), app_name |-> a, logical_date |-> d]}
        /\ ExchangeOver
        /\ UNCHANGED <<key_events, notes, daily_blog, settings, store,
                       pending, props, view, opened, zo, cached, callers>>

TrackKeyIn(D, T, K) ==
    \E d \in D, t \in T, k \in K :
        /\ store = "ok"
        /\ Cardinality(key_events) < MaxKeyRows
        /\ ~\E e \in key_events : e.timestamp = Instant(d, t)
        /\ key_events' = key_events \cup
              {[timestamp |-> Instant(d, t), key_count |-> k, logical_date |-> d]}
        /\ ExchangeOver
        /\ UNCHANGED <<window_events, notes, daily_blog, settings, store,
                       pending, props, view, opened, zo, cached, callers>>

\* ------------------------------------------------------------ initial state
\* Stores the tracker may have left behind when the server starts
SampleWindowEvents ==
    {[timestamp |-> Instant(1, 0), app_name |-> "Chrome", logical_date |-> 1],
     [timestamp |-> Instant(1, 300), app_name |-> "VSCode", logical_date |-> 1]}

SampleKeyEvents ==
    {[timestamp |-> Instant(1, 0), key_count |-> 7, logical_date |-> 1]}

\* No request has been served yet
Quiet ==
    /\ store = "ok"
    /\ req = NoReq
    /\ resp = NoResp
    /\ dbLog = <<>>
    /\ pending = <<>>
    /\ props = <<>>
    /\ view = NoView
    /\ opened = {}
    /\ zo = NoZo
    /\ cached = NoCache
    /\ callers = NoCallers

\* Notes, daily logs and day summaries over a database that holds one day
\* of tracked activity
Init ==
    /\ window_events = SampleWindowEvents
    /\ key_events = SampleKeyEvents
    /\ notes = {}
    /\ daily_blog = {}
    /\ settings = {}
    /\ Quiet

\* The client reads the response of the last exchange
Deliver ==
    /\ req # NoReq
    /\ pending = <<>>
    /\ req' = NoReq
    /\ resp' = NoResp
    /\ dbLog' = <<>>
    /\ UNCHANGED <<tables, store, pending, props, view, opened, zo, cached, callers>>

Idle == req = NoReq

\* The day view is fetched when no exchange is open and refetched right
\* after a note or a daily log was saved
DayViewDue == Idle \/ (req.op \in {"postNote", "putBlog"} /\ resp.status = 200)

\* A request is sent once the previous exchange is over.
Next ==
    \/ (Idle /\ PostNote)
    \/ (Idle /\ PutBlog)
    \/ (DayViewDue /\ GetDay)
    \/ (Idle /\ GetApps)
    \/ Deliver
    \/ StoreFaultTo({"ok", "missing"})

Spec == Init /\ [][Next]_vars

\* A freshly created database that the tracker fills
InitEmpty ==
    /\ window_events = {}
    /\ key_events = {}
    /\ notes = {}
    /\ daily_blog = {}
    /\ settings = {}
    /\ Quiet

DateParams == Dates \cup {NoParam}

LimitParams == (0..MaxLimit) \cup {NoParam}

\* Overview requests over any range while the tracker records
NextOverview ==
    \/ TrackWindowIn(Dates, {0}, {"Chrome", "VSCode"})
    \/ TrackKeyIn(Dates, {0}, {7})
    \/ (Idle /\ GetOverviewWith(DateParams, DateParams, LimitParams, {NoFault}))
    \/ Deliver

SpecOverview == InitEmpty /\ [][NextOverview]_vars

\* Overview requests over the whole history in which the computation of one
\* day may throw
NextOverviewFault ==
    \/ TrackWindowIn(Dates, {0}, {"Chrome", "VSCode"})
    \/ TrackKeyIn(Dates, {0}, {7})
    \/ (Idle /\ GetOverviewWith({NoParam}, {NoParam}, LimitParams,
                                 FailingDays \cup {NoFault}))
    \/ Deliver

SpecOverviewFault == InitEmpty /\ [][NextOverviewFault]_vars

\* Overviews of the whole history while the tracker records focus events and
\* several key samples a day
KeyCounts == {5, 7}

NextTotals ==
    \/ TrackWindowIn(Dates, {0}, {"Chrome", "VSCode"})
    \/ TrackKeyIn(Dates, {0, 300}, KeyCounts)
    \/ GetOverviewWith({NoParam}, {NoParam}, {NoParam}, {NoFault})

SpecTotals == InitEmpty /\ [][NextTotals]_vars

\* App-usage requests while the tracker records
NextUsage ==
    \/ TrackWindowIn(Dates, Times, Apps)
    \/ GetApps

SpecUsage == InitEmpty /\ [][NextUsage]_vars

\* The chart components rendered over the events of a day summary
InitClient ==
    /\ window_events = {}
    /\ key_events = {}
    /\ notes = {}
    /\ daily_blog = {}
    /\ settings = {}
    /\ store = "ok"
    /\ req = NoReq
    /\ resp = NoResp
    /\ dbLog = <<>>
    /\ pending = <<>>
    /\ props \in EventLists
    /\ view = NoView
    /\ opened = {}
    /\ zo = NoZo
    /\ cached = NoCache
    /\ callers = NoCallers

NextClient == RenderCategoryStats \/ RenderCategoryPieChart

SpecClient == InitClient /\ [][NextClient]_vars

\* Settings requests against a store that comes and goes
NextSettings ==
    \/ PutSettings
    \/ PutSettingsStep
    \/ GetSettings
    \/ StoreFaultTo({"ok", "missing"})

SpecSettings == InitEmpty /\ [][NextSettings]_vars

\* Every read route against a filled database that comes and goes
SampleNotes == {[timestamp |-> 300, content |-> "lunch", logical_date |-> 1]}

SampleBlog == {[logical_date |-> 1, content |-> "tea"]}

SampleSettings == {[key |-> "day_boundary_hour", value |-> JsonNumber(7)]}

InitReads ==
    /\ window_events = SampleWindowEvents
    /\ key_events = SampleKeyEvents
    /\ notes = SampleNotes
    /\ daily_blog = SampleBlog
    /\ settings = SampleSettings
    /\ Quiet

NextReads ==
    \/ GetDates
    \/ GetDay
    \/ GetApps
    \/ GetOverviewWith(DateParams, DateParams, LimitParams, {NoFault})
    \/ GetSettings
    \/ StoreFaultTo({"ok", "missing", "locked"})

SpecReads == InitReads /\ [][NextReads]_vars

\* Every read route while the tracker records into a database that already
\* holds a note, a daily log and a setting
InitStore ==
    /\ window_events = {}
    /\ key_events = {}
    /\ notes = SampleNotes
    /\ daily_blog = SampleBlog
    /\ settings = SampleSettings
    /\ Quiet

NextStore ==
    \/ TrackWindowIn(Dates, {0}, {"Chrome", "VSCode"})
    \/ TrackKeyIn(Dates, {0}, {7})
    \/ GetDates
    \/ GetDay
    \/ GetApps
    \/ GetOverviewWith({NoParam}, {NoParam}, LimitParams, {NoFault})
    \/ GetSettings
    \/ StoreFaultTo({"ok", "missing"})

SpecStore == InitStore /\ [][NextStore]_vars

\* ------------------------------------------- the connection helpers
\* withConnection and withWriteConnection statement by statement.  req holds
\* the call and the statement it is at, opened the DuckDB handles that are
\* open; fn is any of the db functions' callbacks and may return or throw.
Helpers == {"withConnection", "withWriteConnection"}

\* The db functions and the helper each of them runs in
ReadFns == {"getAvailableDates", "getDayData", "getOverview", "getAppUsageForDate",
            "getSettings"}

WriteFns == {"addNote", "saveBlog", "updateSetting"}

HelperOf(fn) == IF fn \in WriteFns THEN "withWriteConnection" ELSE "withConnection"

At(pc) == req.op \in Helpers /\ req.pc = pc

Goto(pc) == req' = [req EXCEPT !.pc = pc]

HelperFrame == UNCHANGED <<tables, store, dbLog, pending, props, view, zo, cached, callers>>

\* if (!existsSync(DB_PATH)) throw new Error(...)
HelperCall ==
    /\ req.op = "none" \/ At("done")
    /\ \E fn \in ReadFns \cup WriteFns :
          req' = [op |-> HelperOf(fn), fn |-> fn,
                  pc |-> IF store = "missing" THEN "done" ELSE "create",
                  outcome |-> IF store = "missing" THEN "threw" ELSE "running"]
    /\ resp' = NoResp
    /\ UNCHANGED opened
    /\ HelperFrame

\* const instance = await DuckDBInstance.create(DB_PATH, ...)
HelperCreate ==
    /\ At("create")
    /\ IF store = "ok"
       THEN /\ opened' = opened \cup {"instance"}
            /\ Goto("connect")
       ELSE /\ UNCHANGED opened
            /\ req' = [req EXCEPT !.pc = "done", !.outcome = "threw"]
    /\ UNCHANGED resp
    /\ HelperFrame

\* const conn = await instance.connect(), which resolves or rejects
HelperConnect ==
    /\ At("connect")
    /\ \/ /\ opened' = opened \cup {"conn"}
          /\ Goto("fn")
       \/ /\ UNCHANGED opened
          /\ req' = [req EXCEPT !.pc = "done", !.outcome = "threw"]
    /\ UNCHANGED resp
    /\ HelperFrame

\* try { return await fn(conn) }
HelperFn ==
    /\ At("fn")
    /\ \E o \in {"returned", "threw"} :
          req' = [req EXCEPT !.pc = "closeConn", !.outcome = o]
    /\ UNCHANGED <<opened, resp>>
    /\ HelperFrame

\* finally { conn.closeSync();
HelperCloseConn ==
    /\ At("closeConn")
    /\ opened' = opened \ {"conn"}
    /\ Goto("closeInstance")
    /\ UNCHANGED resp
    /\ HelperFrame

\* instance.closeSync(); }
HelperCloseInstance ==
    /\ At("closeInstance")
    /\ opened' = opened \ {"instance"}
    /\ Goto("done")
    /\ UNCHANGED resp
    /\ HelperFrame

NextConnection ==
    \/ HelperCall
    \/ HelperCreate
    \/ HelperConnect
    \/ HelperFn
    \/ HelperCloseConn
    \/ HelperCloseInstance
    \/ StoreFaultTo({"ok", "missing", "locked"})

SpecConnection == InitReads /\ [][NextConnection]_vars

\* ------------------------------------------------------------- DayView
\* The day page at /day/:date.  view holds the route parameter date and the
\* state availableDates; req holds the last thing the user did.
\* availableDates.findIndex((d) => d.logical_date === date), counted from 0
currentIndex(availableDates, date) ==
    LET hits == {i \in DOMAIN availableDates : availableDates[i].logical_date = date}
    IN IF hits = {} THEN -1
       ELSE (CHOOSE i \in hits : \A j \in hits : i <= j) - 1

\* The null of prevDate and nextDate: no date is numbered 0
NoDateInfo == [logical_date |-> 0]

\* currentIndex < availableDates.length - 1 ? availableDates[currentIndex + 1] : null
prevDate(availableDates, date) ==
    LET i == currentIndex(availableDates, date)
    IN IF i < Len(availableDates) - 1 THEN availableDates[(i + 1) + 1] ELSE NoDateInfo

\* currentIndex > 0 ? availableDates[currentIndex - 1] : null
nextDate(availableDates, date) ==
    LET i == currentIndex(availableDates, date)
    IN IF i > 0 THEN availableDates[(i - 1) + 1] ELSE NoDateInfo

DayViewFrame == UNCHANGED <<tables, store, pending, props, opened, zo, cached, callers>>

\* The page is opened at /day/d: useState([]) for availableDates
DayViewOpen ==
    /\ \E d \in Dates :
          view' = [component |-> "DayView", date |-> d, availableDates |-> <<>>,
                   loaded |-> FALSE]
    /\ req' = [op |-> "openDay"]
    /\ resp' = NoResp
    /\ dbLog' = <<>>
    /\ DayViewFrame

\* The effect that runs once after mounting: fetch("/api/ulogme/dates"),
\* answered by the dates route, then setAvailableDates(data.dates || [])
DayViewDates ==
    /\ view.component = "DayView"
    /\ ~view.loaded
    /\ \E r \in {withConnection(getAvailableDates)} :
          /\ resp' = IF r.ok
                     THEN [status |-> 200, dates |-> r.value]
                     ELSE [status |-> 500, error |-> "Failed to fetch dates"]
          /\ view' = [view EXCEPT !.availableDates = IF r.ok THEN r.value ELSE <<>>,
                                  !.loaded = TRUE]
    /\ req' = [op |-> "getDates"]
    /\ dbLog' = <<"getAvailableDates">>
    /\ DayViewFrame

\* onClick={() => prevDate && navigate(`/day/${prevDate.logical_date}`)},
\* disabled={!prevDate}
DayViewPrev ==
    /\ view.component = "DayView"
    /\ \E target \in {prevDate(view.availableDates, view.date)} :
          /\ target # NoDateInfo
          /\ view' = [view EXCEPT !.date = target.logical_date]
    /\ req' = [op |-> "clickPrev", from |-> view.date]
    /\ resp' = NoResp
    /\ dbLog' = <<>>
    /\ DayViewFrame

\* onClick={() => nextDate && navigate(`/day/${nextDate.logical_date}`)},
\* disabled={!nextDate}
DayViewNext ==
    /\ view.component = "DayView"
    /\ \E target \in {nextDate(view.availableDates, view.date)} :
          /\ target # NoDateInfo
          /\ view' = [view EXCEPT !.date = target.logical_date]
    /\ req' = [op |-> "clickNext", from |-> view.date]
    /\ resp' = NoResp
    /\ dbLog' = <<>>
    /\ DayViewFrame

NextDayView ==
    \/ TrackWindowIn(Dates, {0}, {"Chrome"})
    \/ DayViewOpen
    \/ DayViewDates
    \/ DayViewPrev
    \/ DayViewNext
    \/ StoreFaultTo({"ok", "missing"})

SpecDayView == InitEmpty /\ [][NextDayView]_vars

\* ---------------------------------------------------------- NotesPanel
\* The notes panel of a day page.  view holds the prop logicalDate and the
\* state localNotes, which starts as the prop notes.
\* How many notes the panel may show
MaxShown == 3

\* useState<Note[]>(notes), the notes being those of the day's summary
NotesPanelMount ==
    /\ store = "ok"
    /\ \E d \in Dates :
          \E v \in getDayData(d) :
             view' = [component |-> "NotesPanel", logicalDate |-> d,
                      localNotes |-> v.notes]
    /\ req' = NoReq
    /\ resp' = NoResp
    /\ dbLog' = <<>>
    /\ UNCHANGED notes
    /\ UNCHANGED <<window_events, key_events, daily_blog, settings, store, pending,
                   props, opened, zo, cached, callers>>

\* handleAddNote with a note text that is not blank: the POST is answered
\* by the note route and the note is appended to localNotes, or fetch
\* rejects and the catch block runs
handleAddNote ==
    /\ view.component = "NotesPanel"
    /\ Len(view.localNotes) < MaxShown
    /\ \E t \in NoteTimes, newNote \in Contents, answered \in BOOLEAN :
          IF answered
          THEN /\ PostNoteRoute([json |-> TRUE,
                                 has |-> {"timestamp", "content", "logical_date"},
                                 timestamp |-> t, content |-> newNote,
                                 logical_date |-> view.logicalDate])
               /\ view' = [view EXCEPT !.localNotes =
                              Append(@, [timestamp |-> t, content |-> newNote])]
          ELSE /\ req' = [op |-> "fetch rejected"]
               /\ resp' = NoResp
               /\ dbLog' = <<>>
               /\ UNCHANGED <<notes, view>>
    /\ UNCHANGED <<window_events, key_events, daily_blog, settings, store, pending,
                   props, opened, zo, cached, callers>>

NextNotesPanel ==
    \/ NotesPanelMount
    \/ handleAddNote
    \/ StoreFaultTo({"ok", "missing"})

SpecNotesPanel == Init /\ [][NextNotesPanel]_vars

\* ---------------------------------- the cached-connection database module
\* getConnection statement by statement, one frame per concurrent request:
\* every await is a point where another request may run.
CacheFrame == UNCHANGED <<tables, req, resp, dbLog, pending, props, view, opened, zo>>

\* if (connection !== null) return connection; otherwise
\* DuckDBInstance.create(DB_PATH, ...) is started
GetConnectionCall(c) ==
    /\ callers[c].pc \in {"idle", "returned", "threw"}
    /\ callers' = [callers EXCEPT ![c] =
                      IF cached.connection # 0
                      THEN [pc |-> "returned", mine |-> 0, got |-> cached.connection]
                      ELSE [pc |-> "create", mine |-> 0, got |-> 0]]
    /\ UNCHANGED <<cached, store>>
    /\ CacheFrame

\* instance = await DuckDBInstance.create(...); instance.connect() is started
\* on the instance just assigned
GetConnectionCreate(c) ==
    /\ callers[c].pc = "create"
    /\ cached.made < MaxInstances
    /\ IF store = "ok"
       THEN /\ cached' = [cached EXCEPT !.instance = cached.made + 1,
                                        !.made = cached.made + 1]
            /\ callers' = [callers EXCEPT ![c].pc = "connect",
                                          ![c].mine = cached.made + 1]
       ELSE /\ callers' = [callers EXCEPT ![c].pc = "threw"]
            /\ UNCHANGED cached
    /\ UNCHANGED store
    /\ CacheFrame

\* connection = await instance.connect(); return connection
GetConnectionConnect(c) ==
    /\ callers[c].pc = "connect"
    /\ \/ /\ cached' = [cached EXCEPT !.connection = callers[c].mine]
          /\ callers' = [callers EXCEPT ![c].pc = "returned",
                                        ![c].got = callers[c].mine]
       \/ /\ callers' = [callers EXCEPT ![c].pc = "threw"]
          /\ UNCHANGED cached
    /\ UNCHANGED store
    /\ CacheFrame

\* closeConnection(): both module variables are set to null
CloseConnection ==
    /\ cached.closes < MaxCloses
    /\ cached' = [cached EXCEPT !.instance = 0, !.connection = 0,
                                !.closes = cached.closes + 1]
    /\ UNCHANGED <<callers, store>>
    /\ CacheFrame

NextCache ==
    \/ \E c \in Callers : GetConnectionCall(c)
    \/ \E c \in Callers : GetConnectionCreate(c)
    \/ \E c \in Callers : GetConnectionConnect(c)
    \/ CloseConnection
    \/ StoreFaultTo({"ok", "missing"})

SpecCache == InitEmpty /\ [][NextCache]_vars

\* ------------------------------------------------ the logical day resolver
\* The tracker tags each row with the logical date of its instant.  An
\* instant is a number of minutes of local time; calendar day 1 starts at
\* minute 0.
MinutesPerDay == 24 * 60

HourOf(m) == (m % MinutesPerDay) \div 60

MinuteOf(m) == m % 60

CalendarDate(m) == (m \div MinutesPerDay) + 1

\* A resolver that also rewinds the boundary hour itself
resolve_inclusive(timestamp, boundary_hour) ==
    IF HourOf(timestamp) <= boundary_hour
    THEN CalendarDate(timestamp) - 1
    ELSE CalendarDate(timestamp)

\* resolve(timestamp, boundary_hour): the calendar date, rewound by one day
\* when the local hour is before the boundary hour
resolve(timestamp, boundary_hour) ==
    IF HourOf(timestamp) < boundary_hour
    THEN CalendarDate(timestamp) - 1
    ELSE CalendarDate(timestamp)

BoundaryHours == 0..23

\* The first and the last minute of every hour of the calendar days
ResolverInstants ==
    {((c - 1) * 24 + h) * 60 + mi : c \in Dates, h \in 0..23, mi \in {0, 59}}

\* The tracker resolves the logical date of an instant
Resolve ==
    \E m \in ResolverInstants, b \in BoundaryHours :
        /\ req' = [op |-> "resolve", timestamp |-> m, boundary_hour |-> b]
        /\ resp' = [status |-> 0, date |-> resolve(m, b)]
        /\ UNCHANGED <<tables, store, dbLog, pending, props, view, opened, zo, cached, callers>>

NextResolver ==
    \/ (Idle /\ Resolve)
    \/ Deliver

SpecResolver == InitEmpty /\ [][NextResolver]_vars

\* ------------------------------------------------ the category classifier
\* A subject is the composite of app name and window title, as its words;
\* a pattern is a literal word, which matches a subject it occurs in.
Subjects ==
    {<<"VSCode", "-", "main.py">>,
     <<"Chrome", "-", "VSCode", "docs">>,
     <<"Terminal">>}

AppName(subject) == subject[1]

Matches(pattern, subject) == \E i \in DOMAIN subject : subject[i] = pattern

CategoryRules ==
    [pattern : {"Chrome", "VSCode"}, category : {"Browser", "Coding"}, priority : {1, 2}]

RuleLists == UNION {[1..n -> CategoryRules] : n \in 0..MaxRules}

\* The rules in evaluation order: higher priority first, declaration order
\* among equal priorities
RECURSIVE InsertByPriority(_, _)
InsertByPriority(r, s) ==
    IF s = <<>> THEN <<r>>
    ELSE IF Head(s).priority >= r.priority
         THEN <<Head(s)>> \o InsertByPriority(r, Tail(s))
         ELSE <<r>> \o s

RECURSIVE ByPriority(_)
ByPriority(rules) ==
    IF rules = <<>> THEN <<>>
    ELSE InsertByPriority(rules[Len(rules)], ByPriority(SubSeq(rules, 1, Len(rules) - 1)))

\* The category of the first rule of s that matches, the fallback otherwise
RECURSIVE FirstMatch(_, _, _)
FirstMatch(s, subject, fallback) ==
    IF s = <<>> THEN fallback
    ELSE IF Matches(Head(s).pattern, subject) THEN Head(s).category
         ELSE FirstMatch(Tail(s), subject, fallback)

\* A classifier that evaluates the rules in declaration order only
classify_declarationOrder(subject, rules) ==
    FirstMatch(rules, subject, AppName(subject))

\* classify(subject, rules)
classify(subject, rules) ==
    FirstMatch(ByPriority(rules), subject, AppName(subject))

Classify ==
    \E subject \in Subjects, rules \in RuleLists :
        /\ req' = [op |-> "classify", subject |-> subject, rules |-> rules]
        /\ resp' = [status |-> 0, category |-> classify(subject, rules)]
        /\ UNCHANGED <<tables, store, dbLog, pending, props, view, opened, zo, cached, callers>>

NextClassifier ==
    \/ (Idle /\ Classify)
    \/ Deliver

SpecClassifier == InitEmpty /\ [][NextClassifier]_vars

\* --------------------------------------------------------------- callZo
\* callZo statement by statement.  req holds the call: the statement it is
\* at, the loop variable attempt and the token; zo holds the number of fetch
\* requests the call has issued and the attempts whose timeout timer is
\* pending; resp holds how the call ended.
MAX_RETRIES == 3

Undefined == "<undefined>"

\* options?.token and process.env.ZO_CLIENT_IDENTITY_TOKEN
OptionTokens == {Undefined, "", "opt-token"}

EnvTokens == {Undefined, "", "env-token"}

\* options?.token ?? process.env.ZO_CLIENT_IDENTITY_TOKEN
TokenOf(optToken, envToken) == IF optToken # Undefined THEN optToken ELSE envToken

\* A check that lets every token pass
TokenMissing_never(token) == FALSE

\* !token
TokenMissing(token) == token = Undefined \/ token = ""

\* No response has arrived in the attempt; a response has a status that is
\* ok or not and a body that response.json() / response.text() can read or
\* not
NoResponse == [ok |-> FALSE, readable |-> FALSE, arrived |-> FALSE]

Responses == [ok : BOOLEAN, readable : BOOLEAN, arrived : {TRUE}]

ZoAt(pc) == req.op = "callZo" /\ req.pc = pc

ZoFrame ==
    UNCHANGED <<tables, store, dbLog, pending, props, view, opened, cached, callers>>

\* The call up to the loop
ZoCall ==
    /\ req.op = "none" \/ ZoAt("done")
    /\ \E o \in OptionTokens, e \in EnvTokens :
          \E token \in {TokenOf(o, e)} :
             /\ req' = [op |-> "callZo", optToken |-> o, envToken |-> e,
                        token |-> token, attempt |-> 0, lastError |-> "null",
                        response |-> NoResponse,
                        pc |-> IF TokenMissing(token) THEN "done" ELSE "loop"]
             /\ resp' = IF TokenMissing(token)
                        THEN [status |-> 0, outcome |-> "threw",
                              error |-> "ZO_CLIENT_IDENTITY_TOKEN is required"]
                        ELSE NoResp
    /\ zo' = NoZo
    /\ ZoFrame

\* attempt < MAX_RETRIES; setTimeout(() => controller.abort(), ...); fetch(...)
ZoSend ==
    /\ ZoAt("loop")
    /\ req.attempt < MAX_RETRIES
    /\ zo' = [sent |-> zo.sent + 1, timers |-> zo.timers \cup {req.attempt}]
    /\ req' = [req EXCEPT !.pc = "await", !.response = NoResponse]
    /\ UNCHANGED resp
    /\ ZoFrame

\* fetch resolves; clearTimeout(timeoutId); response.ok, or
\* await response.text() and lastError = new Error(`HTTP ...`), or the catch
\* block when the text cannot be read
ZoResponse ==
    /\ ZoAt("await")
    /\ \E r \in Responses :
          req' = IF r.ok THEN [req EXCEPT !.pc = "json", !.response = r]
                 ELSE [req EXCEPT !.pc = "retry", !.response = r,
                                  !.lastError = IF r.readable THEN "HTTP status"
                                                ELSE "body"]
    /\ zo' = [zo EXCEPT !.timers = zo.timers \ {req.attempt}]
    /\ UNCHANGED resp
    /\ ZoFrame

\* fetch rejects with a network error: the catch block runs
ZoFetchRejects ==
    /\ ZoAt("await")
    /\ req' = [req EXCEPT !.pc = "retry", !.lastError = "network"]
    /\ UNCHANGED <<zo, resp>>
    /\ ZoFrame

\* A timeout timer fires and aborts its controller; the fetch of the
\* attempt, when still awaited, rejects
ZoTimerFires ==
    /\ req.op = "callZo"
    /\ \E t \in zo.timers :
          /\ zo' = [zo EXCEPT !.timers = zo.timers \ {t}]
          /\ req' = IF req.pc = "await" /\ t = req.attempt
                    THEN [req EXCEPT !.pc = "retry", !.lastError = "aborted"]
                    ELSE req
    /\ UNCHANGED resp
    /\ ZoFrame

\* The step after an ok response that goes on to the retry whatever the
\* body is
ZoJson_retryAfterParse ==
    /\ ZoAt("json")
    /\ req' = [req EXCEPT !.pc = "retry", !.lastError = "body"]
    /\ resp' = [status |-> 0, outcome |-> "parsed", body |-> req.attempt]
    /\ UNCHANGED zo
    /\ ZoFrame

\* return (await response.json()) as ZoResponse, or the catch block when
\* the body does not parse
ZoJson ==
    /\ ZoAt("json")
    /\ IF req.response.readable
       THEN /\ req' = [req EXCEPT !.pc = "done"]
            /\ resp' = [status |-> 0, outcome |-> "returned", body |-> req.attempt]
       ELSE /\ req' = [req EXCEPT !.pc = "retry", !.lastError = "body"]
            /\ UNCHANGED resp
    /\ UNCHANGED zo
    /\ ZoFrame

\* The end of the loop body: the retry delay and attempt++, or the throw
\* after the last attempt
ZoRetry ==
    /\ ZoAt("retry")
    /\ IF req.attempt < MAX_RETRIES - 1
       THEN /\ req' = [req EXCEPT !.pc = "loop", !.attempt = req.attempt + 1]
            /\ UNCHANGED resp
       ELSE /\ req' = [req EXCEPT !.pc = "done", !.attempt = req.attempt + 1]
            /\ resp' = [status |-> 0, outcome |-> "threw",
                        error |-> "All retry attempts failed", last |-> req.lastError]
    /\ UNCHANGED zo
    /\ ZoFrame

NextZo ==
    \/ ZoCall
    \/ ZoSend
    \/ ZoResponse
    \/ ZoFetchRejects
    \/ ZoTimerFires
    \/ ZoJson
    \/ ZoRetry

SpecZo == InitEmpty /\ [][NextZo]_vars

\* A step in which a route handler ran: every handler leaves the store's
\* availability alone and every other step changes it or the tables only.
HandlerStep == store' = store /\ window_events' = window_events /\ key_events' = key_events

\* ===================================================================== C1
\* C1: add_note(t, c, d) that succeeded, followed by get_day_summary(d),
\* returns a notes list holding a note with content c at timestamp t,
\* whatever was written before.
C1_NoteRoundTrip ==
    [][(/\ req.op = "postNote" /\ resp.status = 200
        /\ req'.op = "getDay" /\ resp'.status = 200
        /\ req'.logicalDate = req.body.logical_date)
       => \E i \in DOMAIN resp'.data.notes :
              resp'.data.notes[i] = [timestamp |-> req.body.timestamp,
                                     content |-> req.body.content]]_vars

\* ===================================================================== C6
\* A note body that lacks timestamp, content or logical_date (or has empty
\* content), a blog body that lacks content, or a body that is not JSON
MalformedWrite(r) ==
    \/ /\ r.op = "postNote"
       /\ \/ ~r.body.json
          \/ {"timestamp", "content", "logical_date"} \ r.body.has # {}
          \/ r.body.content = ""
    \/ /\ r.op = "putBlog"
       /\ (~r.body.json \/ "content" \notin r.body.has)

NoData(d) ==
    /\ ~\E e \in window_events : e.logical_date = d
    /\ ~\E e \in key_events : e.logical_date = d
    /\ ~\E e \in notes : e.logical_date = d
    /\ ~\E e \in daily_blog : e.logical_date = d

\* C8: with the store available, get_day_summary of a date without data
\* answers 200 with empty window_events, key_events and notes and a null
\* blog, and get_app_usage of it answers 200 with an empty list.
C8_NoDataIsEmptyNotError ==
    [][(/\ HandlerStep /\ store = "ok"
        /\ req'.op \in {"getDay", "getApps"} /\ NoData(req'.logicalDate))
       => (/\ resp'.status = 200
           /\ req'.op = "getDay" =>
                 /\ resp'.data.window_events = <<>>
                 /\ resp'.data.key_events = <<>>
                 /\ resp'.data.notes = <<>>
                 /\ resp'.data.blog = Null
           /\ req'.op = "getApps" => resp'.apps = <<>>)]_vars

\* A day without data was read while other days have events, notes and a blog
C8_Witness ==
    /\ req.op = "getDay" /\ NoData(req.logicalDate)
    /\ resp.status = 200 /\ resp.data.notes = <<>> /\ resp.data.blog = Null
    /\ window_events # {} /\ notes # {} /\ daily_blog # {}

\* ===================================================================== C2
\* The dates a request's from/to parameters ask for
InRequestedRange(d, r) ==
    /\ (r.from = NoParam \/ r.from <= d)
    /\ (r.to = NoParam \/ d <= r.to)

\* The dates of the requested range that have focus events
RecordedInRange(r) ==
    {d \in Dates : InRequestedRange(d, r) /\ \E e \in window_events : e.logical_date = d}

KnownInRange(r) ==
    {d \in Dates : /\ InRequestedRange(d, r)
                   /\ \/ \E e \in window_events : e.logical_date = d
                      \/ \E e \in key_events : e.logical_date = d}

\* C3: when the limit does not cut the result, every date of the requested
\* range appears in it, a date without focus events as an entry with
\* unique_apps = 0.
C3_EveryDateAppears ==
    (req.op = "getOverview" /\ resp.status = 200 /\ Len(resp.days) < LimitOf(req.limit)) =>
        \A d \in KnownInRange(req) :
            \E i \in DOMAIN resp.days :
                /\ resp.days[i].logical_date = d
                /\ (~\E e \in window_events : e.logical_date = d)
                      => resp.days[i].unique_apps = 0

\* ===================================================================== C9
\* The days an overview over the whole history with this limit covers
CoveredDays(r) ==
    LET ordered == OrderDesc({e.logical_date : e \in window_events})
        cut == Limit(ordered, LimitOf(r.limit))
    IN {cut[i] : i \in DOMAIN cut}

\* C9: when the computation of one covered day fails, the request still
\* succeeds: that day is returned zero-filled with an error marker and every
\* other covered day is returned.
C9_DayFailureIsolated ==
    (req.op = "getOverview" /\ req.fault \in CoveredDays(req)) =>
        /\ resp.status = 200
        /\ \E i \in DOMAIN resp.days :
              /\ resp.days[i].logical_date = req.fault
              /\ resp.days[i].total_keys = 0
              /\ resp.days[i].unique_apps = 0
              /\ "error" \in DOMAIN resp.days[i]
        /\ \A d \in CoveredDays(req) \ {req.fault} :
              \E i \in DOMAIN resp.days : resp.days[i].logical_date = d

\* ===================================================================== C4
\* min(timestamp of the next event - own timestamp, 30 minutes), 0 for the
\* last event, summed over the events of app a
GapCap == 30 * 60

RECURSIVE CappedSum(_, _, _)
CappedSum(w, a, i) ==
    IF i = 0 THEN 0
    ELSE CappedSum(w, a, i - 1)
         + (IF w[i].app_name = a /\ i < Len(w)
            THEN (IF w[i + 1].timestamp - w[i].timestamp < GapCap
                  THEN w[i + 1].timestamp - w[i].timestamp ELSE GapCap)
            ELSE 0)

\* C4: the durations returned by get_app_usage(d) are, for some timestamp
\* order of the day's events, the per-app sums of the gaps capped at 30
\* minutes, the last event counting zero.
C4_UsageCappedAt30Min ==
    (req.op = "getApps" /\ resp.status = 200) =>
        \E w \in OrderByTimestamp({e \in window_events : e.logical_date = req.logicalDate}) :
            /\ {resp.apps[i].app_name : i \in DOMAIN resp.apps}
                  = {w[i].app_name : i \in DOMAIN w}
            /\ \A i \in DOMAIN resp.apps :
                  resp.apps[i].duration_seconds = CappedSum(w, resp.apps[i].app_name, Len(w))

\* ===================================================================== C5
\* (09:00 Chrome), (09:05 VSCode), (09:40 Chrome), in seconds after 09:00
ExampleEvents ==
    <<[timestamp |-> 0, app_name |-> "Chrome"],
      [timestamp |-> 300, app_name |-> "VSCode"],
      [timestamp |-> 2400, app_name |-> "Chrome"]>>

\* C5: both components give every app they show the sum of its events'
\* gaps to the next event capped at 30 minutes, the last event counting
\* zero; they show every app but the locked screen; the example gives
\* VSCode 30 min and Chrome 5 min; no event gives no data and a single
\* event gives zero durations.
C5_ClientDurations ==
    (view.component \in {"CategoryStats", "CategoryPieChart"}) =>
        /\ \A i \in DOMAIN view.data :
              view.data[i].duration = CappedSum(props, view.data[i].name, Len(props))
        /\ {view.data[i].name : i \in DOMAIN view.data}
              = {props[i].app_name : i \in DOMAIN props} \ {"__LOCKEDSCREEN"}
        /\ props = ExampleEvents =>
              view.data = <<[name |-> "VSCode", duration |-> 30 * 60],
                            [name |-> "Chrome", duration |-> 5 * 60]>>
        /\ props = <<>> => view.data = <<>>
        /\ Len(props) = 1 => \A i \in DOMAIN view.data : view.data[i].duration = 0

\* The pie chart was rendered over the example events
C5_Witness ==
    /\ view.component = "CategoryPieChart" /\ props = ExampleEvents
    /\ view.totalSeconds = 35 * 60

\* ===================================================================== C7
ReadOps == {"getDates", "getDay", "getApps", "getOverview", "getSettings"}

\* C7: a read request served while the store is missing or cannot be opened
\* is answered with status 500 and an error message.
C7_ReadsSurfaceStorageFault ==
    [][(store' = store /\ store # "ok" /\ req'.op \in ReadOps)
       => (resp'.status = 500 /\ "error" \in DOMAIN resp')]_vars

\* The dates of a filled database were requested while its file was missing
C7_Witness ==
    /\ req.op = "getDates" /\ store = "missing" /\ resp.status = 500
    /\ window_events # {}

\* ==================================================================== C10
\* C10: the stored day_boundary_hour, when present, is an integer in 0..23.
C10_BoundaryHourInRange ==
    \A r \in settings :
        r.key = "day_boundary_hour" => (r.value.type = "number" /\ r.value.num \in 0..23)

\* ==================================================================== C11
\* C11: a get_settings served right after a PUT of settings has completed
\* successfully returns, for every key of that PUT, the value it carried,
\* whatever was stored or read before.
C11_SettingsReadFresh ==
    [][(/\ req.op = "putSettings" /\ resp.status = 200 /\ pending = <<>>
        /\ req'.op = "getSettings" /\ resp'.status = 200)
       => \A i \in DOMAIN req.body :
              /\ req.body[i].key \in DOMAIN resp'.settings
              /\ resp'.settings[req.body[i].key] = req.body[i].value]_vars

\* Both settings were read back after the boundary hour had been rewritten
C11_Witness ==
    /\ req.op = "getSettings" /\ resp.status = 200
    /\ DOMAIN resp.settings = SettingKeys
    /\ resp.settings["day_boundary_hour"] = JsonNumber(23)
    /\ resp.settings["hacking_categories"] = JsonArray("[\"Coding\"]")

\* ==================================================================== C12
\* The entry the next updateSetting of the running PUT applies is stored
\* already, as a first application of it leaves it
AppliedBefore ==
    /\ pending # <<>>
    /\ [key |-> Head(pending).key, value |-> Head(pending).value] \in settings

\* C12: applying update_setting(key, value) to a store that already holds
\* value under key, as a first application leaves it, succeeds and leaves
\* the settings store, and so the result of get_settings, unchanged.
C12_UpdateIdempotent ==
    [][(AppliedBefore /\ store = "ok" /\ pending' # pending)
       => (/\ settings' = settings
           /\ pending' = Tail(pending)
           /\ resp'.status # 500)]_vars

\* The boundary hour 23 is stored next to another setting and a PUT that
\* carries 23 again is about to apply it
C12_Witness ==
    /\ AppliedBefore /\ store = "ok"
    /\ Head(pending) = [key |-> "day_boundary_hour", value |-> JsonNumber(23)]
    /\ Cardinality(settings) = 2

\* ==================================================================== C13
\* C13: a step that serves a read request (available dates, day summary,
\* app usage, overview, settings) changes none of the five tables, whether
\* the request succeeds or fails.
C13_ReadsChangeNothing ==
    [][(req'.op \in ReadOps /\ <<req', resp'>> # <<req, resp>>)
       => tables' = tables]_vars

\* The app usage of a recorded day was computed and served from a store
\* that holds rows in every table
C13_Witness ==
    /\ req.op = "getApps" /\ resp.status = 200 /\ Len(resp.apps) = 2
    /\ key_events # {} /\ notes # {} /\ daily_blog # {} /\ settings # {}

\* ==================================================================== C14
\* C14: when a call of withConnection or withWriteConnection has finished,
\* by returning or by throwing at any of its statements, no DuckDB instance
\* or connection is open.
C14_HandlesClosedAtExit ==
    At("done") => opened = {}

\* ==================================================================== C15
\* A step in which add_note / save_daily_log was served and succeeded
NoteWritten == req.op = "none" /\ req'.op = "postNote" /\ resp'.status = 200

BlogWritten == req.op = "none" /\ req'.op = "putBlog" /\ resp'.status = 200

\* C15: every step leaves at most one note per timestamp and at most one
\* daily log per logical_date; a successful add_note leaves its content in
\* the note of its timestamp and a successful save_daily_log leaves its
\* content in the log of its date, neither touching a row of another key;
\* and no other step changes notes or daily logs, so each key holds the
\* content of the most recent successful write to it.
C15_OneRowPerKeyLatestContent ==
    [][/\ \A m, n \in notes' : m.timestamp = n.timestamp => m = n
       /\ \A a, b \in daily_blog' : a.logical_date = b.logical_date => a = b
       /\ IF NoteWritten
          THEN /\ \E n \in notes' : /\ n.timestamp = req'.body.timestamp
                                    /\ n.content = req'.body.content
               /\ {n \in notes' : n.timestamp # req'.body.timestamp}
                     = {n \in notes : n.timestamp # req'.body.timestamp}
          ELSE notes' = notes
       /\ IF BlogWritten
          THEN /\ \E b \in daily_blog' : /\ b.logical_date = req'.logicalDate
                                         /\ b.content = req'.body.content
               /\ {b \in daily_blog' : b.logical_date # req'.logicalDate}
                     = {b \in daily_blog : b.logical_date # req'.logicalDate}
          ELSE daily_blog' = daily_blog]_vars

\* A note was added at a timestamp that already held a note of another day
\* with other content, while a daily log exists
C15_Witness ==
    /\ req.op = "postNote" /\ resp.status = 200 /\ req.body.content = "tea"
    /\ \E n \in notes : /\ n.timestamp = req.body.timestamp
                         /\ n.content = "tea"
                         /\ n.logical_date # req.body.logical_date
    /\ daily_blog # {}

\* ==================================================================== C16
\* C16: every entry of a successful get_overview has as total_keys the sum
\* of key_count over the key samples of its date (0 without samples) and as
\* unique_apps the number of distinct app_names among the focus events of
\* its date, however many rows the other table holds for that date.
C16_OverviewTotals ==
    (req.op = "getOverview" /\ resp.status = 200) =>
        \A i \in DOMAIN resp.days :
            LET d == resp.days[i].logical_date
            IN /\ resp.days[i].total_keys
                     = SumKeyCount({k \in key_events : k.logical_date = d})
               /\ resp.days[i].unique_apps
                     = Cardinality({w.app_name : w \in {e \in window_events :
                                                           e.logical_date = d}})

\* An overview holds a day with two apps and two key samples (5 + 7 keys)
\* and a day with focus events and no key sample
C16_Witness ==
    /\ req.op = "getOverview" /\ resp.status = 200
    /\ \E i \in DOMAIN resp.days :
          resp.days[i].total_keys = 12 /\ resp.days[i].unique_apps = 2
    /\ \E i \in DOMAIN resp.days :
          resp.days[i].total_keys = 0 /\ resp.days[i].unique_apps = 1

\* ==================================================================== C17
\* The capped time of every app but the locked screen
RECURSIVE ActiveTotal(_, _)
ActiveTotal(ev, A) ==
    IF A = {} THEN 0
    ELSE LET a == CHOOSE x \in A : TRUE
         IN (IF a = "__LOCKEDSCREEN" THEN 0 ELSE CappedSum(ev, a, Len(ev)))
               + ActiveTotal(ev, A \ {a})

\* C17: whatever events are given, locked-screen events included, both
\* components render; no entry they show is named __LOCKEDSCREEN, and the
\* pie chart's total is the capped time of the other apps only.
C17_LockedScreenExcluded ==
    (view.component \in {"CategoryStats", "CategoryPieChart"}) =>
        /\ \A i \in DOMAIN view.data : view.data[i].name # "__LOCKEDSCREEN"
        /\ view.component = "CategoryPieChart" =>
              view.totalSeconds = ActiveTotal(props, Apps)

\* The pie chart was rendered over a day with 35 minutes of locked screen
\* after 5 minutes of Chrome
C17_Witness ==
    /\ view.component = "CategoryPieChart"
    /\ props = <<[timestamp |-> 0, app_name |-> "Chrome"],
                 [timestamp |-> 300, app_name |-> "__LOCKEDSCREEN"],
                 [timestamp |-> 2400, app_name |-> "VSCode"]>>
    /\ view.totalSeconds = 300

\* ==================================================================== C18
\* C18: in a successful get_app_usage response no entry is followed by one
\* with a larger duration_seconds.
C18_UsageSortedDescending ==
    (req.op = "getApps" /\ resp.status = 200) =>
        \A i, j \in DOMAIN resp.apps :
            i < j => resp.apps[i].duration_seconds >= resp.apps[j].duration_seconds

\* Chrome, then VSCode, then the locked screen were focused on one day:
\* VSCode (35 min) is listed before Chrome (5 min) and the last app (0)
C18_Witness ==
    /\ req.op = "getApps" /\ resp.status = 200 /\ Len(resp.apps) = 3
    /\ resp.apps[1].app_name = "VSCode" /\ resp.apps[1].duration_seconds = 2100
    /\ resp.apps[2].app_name = "Chrome" /\ resp.apps[2].duration_seconds = 300
    /\ resp.apps[3].duration_seconds = 0

\* ==================================================================== C19
\* C19: for every boundary hour in 0..23, an instant resolves to its
\* calendar date minus one day exactly when its local hour is before the
\* boundary hour; so the instant at minute 0 of the boundary hour resolves
\* to its own calendar date and the instant one minute before it resolves
\* to the calendar date before that.
C19_BoundaryHourResolution ==
    (req.op = "resolve") =>
        LET m == req.timestamp
            b == req.boundary_hour
        IN /\ (resp.date = CalendarDate(m) - 1) <=> (HourOf(m) < b)
           /\ (resp.date = CalendarDate(m)) <=> (HourOf(m) >= b)
           /\ (HourOf(m) = b /\ MinuteOf(m) = 0) =>
                 /\ resp.date = CalendarDate(m)
                 /\ resolve(m - 1, b) = CalendarDate(m) - 1

\* 07:00 of calendar day 2 was resolved with boundary hour 7
C19_Witness ==
    /\ req.op = "resolve" /\ req.boundary_hour = 7
    /\ req.timestamp = (24 + 7) * 60
    /\ resp.date = 2
    /\ resolve(req.timestamp - 1, 7) = 1

\* ==================================================================== C20
\* Chrome -> Browser with priority 1, VSCode -> Coding with priority 2
ExampleRules ==
    <<[pattern |-> "Chrome", category |-> "Browser", priority |-> 1],
      [pattern |-> "VSCode", category |-> "Coding", priority |-> 2]>>

\* C20: the classifier returns the category of a matching rule that no
\* matching rule of higher priority, and no matching rule of equal priority
\* declared earlier, precedes; the example rules give "Coding" for
\* "VSCode - main.py"; when no rule matches, the result is the subject's
\* application name.
C20_FirstMatchByPriority ==
    (req.op = "classify") =>
        LET rules == req.rules
            subject == req.subject
            matching == {i \in DOMAIN rules : Matches(rules[i].pattern, subject)}
        IN /\ matching = {} => resp.category = AppName(subject)
           /\ matching # {} =>
                 \E i \in matching :
                     /\ resp.category = rules[i].category
                     /\ \A j \in matching :
                           \/ rules[j].priority < rules[i].priority
                           \/ (rules[j].priority = rules[i].priority /\ j >= i)
           /\ (rules = ExampleRules /\ subject = <<"VSCode", "-", "main.py">>)
                 => resp.category = "Coding"

\* A subject that both rules match was classified by the rule of higher
\* priority, which is declared second
C20_Witness ==
    /\ req.op = "classify" /\ req.rules = ExampleRules
    /\ req.subject = <<"Chrome", "-", "VSCode", "docs">>
    /\ resp.category = "Coding"

\* ==================================================================== C21
\* C21: a call of callZo for which neither options.token nor
\* ZO_CLIENT_IDENTITY_TOKEN supplies a token ends by throwing and issues no
\* HTTP request.
C21_TokenRequired ==
    (/\ req.op = "callZo"
     /\ req.optToken \in {Undefined, ""}
     /\ req.envToken \in {Undefined, ""})
    => (/\ req.pc = "done"
        /\ resp.outcome = "threw"
        /\ zo.sent = 0)

\* A call without any token has thrown
C21_Witness ==
    /\ ZoAt("done") /\ req.optToken = Undefined /\ req.envToken = Undefined
    /\ resp.outcome = "threw" /\ zo.sent = 0 /\ req.attempt = 0

\* ==================================================================== C22
\* C22: a successful add_note on a timestamp that already has a note leaves
\* that note with its logical_date and with the new content, whatever
\* logical_date the call passes, and adds no row.
C22_NoteDateFixedAtCreation ==
    [][NoteWritten =>
          \A n \in notes :
              n.timestamp = req'.body.timestamp =>
                  /\ [n EXCEPT !.content = req'.body.content] \in notes'
                  /\ Cardinality(notes') = Cardinality(notes)]_vars

\* A note of day 1 was rewritten by a call that passed day 2 and is still a
\* note of day 1, now with the call's content
C22_Witness ==
    /\ req.op = "postNote" /\ resp.status = 200
    /\ req.body.logical_date = 2 /\ req.body.content = "lunch"
    /\ [timestamp |-> req.body.timestamp, content |-> "lunch", logical_date |-> 1]
          \in notes

\* ==================================================================== C23
\* C23: save_daily_log(d, c) that succeeded with a string c, the empty
\* string included, followed by get_day_summary(d), returns c as the daily
\* log.
C23_DailyLogRoundTrip ==
    [][(/\ req.op = "putBlog" /\ resp.status = 200 /\ req.body.content # Null
        /\ req'.op = "getDay" /\ resp'.status = 200
        /\ req'.logicalDate = req.logicalDate)
       => resp'.data.blog = req.body.content]_vars

\* ==================================================================== C24
\* C24: when a PUT of settings has ended with an error, the settings table
\* is as the request found it: no key of the request has been changed.
C24_SettingsPutAllOrNothing ==
    (req.op = "putSettings" /\ pending = <<>> /\ resp.status = 500)
       => settings = req.before

\* ==================================================================== C25
\* C25: as long as closeConnection has not been called, getConnection has
\* created at most one DuckDB instance, and all callers that have returned
\* hold the same connection, also when they called concurrently.
C25_OneCachedInstance ==
    cached.closes = 0 =>
       /\ cached.made <= 1
       /\ \A c1, c2 \in Callers :
             (callers[c1].pc = "returned" /\ callers[c2].pc = "returned")
                => callers[c1].got = callers[c2].got

\* ==================================================================== C26
\* C26 as stated: a call issues at most MAX_RETRIES requests, and once an
\* attempt has received a response with ok status the call issues no
\* further request and returns that response's body.
C26_OkResponseEndsCall ==
    /\ zo.sent <= MAX_RETRIES
    /\ (req.op = "callZo" /\ req.response.arrived /\ req.response.ok)
          => /\ req.pc \in {"json", "done"}
             /\ req.pc = "done" =>
                   /\ resp.outcome = "returned"
                   /\ resp.body = req.attempt
                   /\ zo.sent = req.attempt + 1

\* C26 amended: a call issues at most MAX_RETRIES requests, and once an
\* attempt has received a response with ok status whose body can be parsed
\* the call issues no further request and returns that response's body.
C26_ParsedOkResponseEndsCall ==
    /\ zo.sent <= MAX_RETRIES
    /\ (/\ req.op = "callZo" /\ req.response.arrived
        /\ req.response.ok /\ req.response.readable)
          => /\ req.pc \in {"json", "done"}
             /\ req.pc = "done" =>
                   /\ resp.outcome = "returned"
                   /\ resp.body = req.attempt
                   /\ zo.sent = req.attempt + 1

\* A call has returned the body of the ok response to its second request
C26_Witness ==
    /\ ZoAt("done") /\ req.response.ok /\ req.response.readable
    /\ resp.outcome = "returned" /\ resp.body = 1 /\ zo.sent = 2

\* ==================================================================== C27
\* C27: when callZo has returned or thrown, no timeout timer that it set
\* is still pending.
C27_NoTimerLeftPending == ZoAt("done") => zo.timers = {}

\* ==================================================================== C28
\* C28: after a click on the enabled previous button DayView shows an
\* available date strictly earlier than the date it showed before, and
\* after a click on the enabled next button one strictly later.
C28_NavigationDirection ==
    (view.component = "DayView" /\ req.op \in {"clickPrev", "clickNext"})
       => /\ \E i \in DOMAIN view.availableDates :
                view.availableDates[i].logical_date = view.date
          /\ req.op = "clickPrev" => view.date < req.from
          /\ req.op = "clickNext" => view.date > req.from

\* ==================================================================== C29
\* C29: when the POST of a note from NotesPanel is answered with an error
\* status, the notes the panel displays are unchanged.
C29_NoteShownOnlyWhenAccepted ==
    [][(/\ view.component = "NotesPanel"
        /\ req'.op = "postNote"
        /\ resp'.status \in {400, 500})
          => view'.localNotes = view.localNotes]_vars

\* ==================================================================== C30
\* The sum of duration_seconds over the first i entries of a usage list
RECURSIVE SumSeconds(_, _)
SumSeconds(apps, i) ==
    IF i = 0 THEN 0 ELSE SumSeconds(apps, i - 1) + apps[i].duration_seconds

\* C30: for a day with focus events, the durations returned by
\* get_app_usage add up to the time between the day's first and last focus
\* events, and none of them is negative.
C30_UsageSumsToSpan ==
    (req.op = "getApps" /\ resp.status = 200) =>
        LET stamps == {e.timestamp : e \in {x \in window_events :
                                                x.logical_date = req.logicalDate}}
        IN /\ \A i \in DOMAIN resp.apps : resp.apps[i].duration_seconds >= 0
           /\ stamps # {} =>
                 \E first \in stamps, last \in stamps :
                    /\ \A t \in stamps : first <= t /\ t <= last
                    /\ SumSeconds(resp.apps, Len(resp.apps)) = last - first

\* The usage of a day whose events span 2400 seconds, with a gap of more
\* than 30 minutes, divided over two apps
C30_Witness ==
    /\ req.op = "getApps" /\ resp.status = 200 /\ Len(resp.apps) = 2
    /\ resp.apps[1].duration_seconds = 2100 /\ resp.apps[2].duration_seconds = 300
    /\ SumSeconds(resp.apps, 2) = 2400

====
